---- MODULE Spec2Model ----
(***************************************************************************)
(* Deferred binding of call arguments (src/new_defer.py) and the           *)
(* single-owner registry of named strategies                               *)
(* (src/hypothesis-python/src/hypothesis/strategies/_internal/params.py).  *)
(*                                                                         *)
(* The specifications share the variables: Spec drives the wrapped         *)
(* callable and its deferred calls, SpecRegistry drives the registry,      *)
(* SpecParam drives the named references param(name) under registries      *)
(* that have been constructed.                                             *)
(* SpecNested is Spec for callers that pass deferred calls as arguments,   *)
(* SpecTwo is Spec for a caller that keeps two deferred calls.             *)
(***************************************************************************)
EXTENDS Integers, Sequences, FiniteSets, TLC

VARIABLES sig, deferred, dispatched, last, registries, current_registry, rlast, handles

vars == <<sig, deferred, dispatched, last, registries, current_registry, rlast, handles>>

(***************************************************************************)
(* Bounds of the model.                                                    *)
(***************************************************************************)
\* a call passes at most MaxArgs arguments, positional and keyword together
MaxArgs == 3
\* a call passes at most MaxKw keyword arguments
MaxKw == 1

(***************************************************************************)
(* Values.  A Python object is modelled by its class and its content.      *)
(***************************************************************************)
Concrete(n) == [tag |-> "int", v |-> n]

\* ExpectsParameter(): the sentinel; its name is used by __repr__ only
Placeholder == [tag |-> "ExpectsParameter", v |-> 0]

\* an instance of parametrize.<locals>._DeferredCall, a subclass of ExpectsParameter
DeferredRef(id) == [tag |-> "_DeferredCall", v |-> id]

\* the tuple (or list) bound to the variadic-positional parameter
Tuple(items) == [tag |-> "tuple", v |-> items]

\* the dict bound to the variadic-keyword parameter
Dict(map) == [tag |-> "dict", v |-> map]

EmptyDict == [n \in {} |-> Placeholder]

\* The argument values of a call.  The code never looks into a value but
\* to ask whether it is an ExpectsParameter, so two concrete values, equal
\* or different, stand for all.
ConcreteValues == {Concrete(1), Concrete(2)}

Values == {Placeholder} \cup ConcreteValues

is_placeholder_exact(v) == v.tag = "ExpectsParameter"

\* isinstance(v, ExpectsParameter)
is_placeholder(v) == v.tag \in {"ExpectsParameter", "_DeferredCall"}

has_placeholders_truthy(arguments) ==
    \E n \in DOMAIN arguments : TRUE

\* any(_is_placeholder(v) for v in bound.arguments.values())
has_placeholders(arguments) ==
    \E n \in DOMAIN arguments : is_placeholder(arguments[n])

(***************************************************************************)
(* Signatures of the wrapped callable fn.                                  *)
(***************************************************************************)
Param(name, kind, hasDefault) == [name |-> name, kind |-> kind, hasDefault |-> hasDefault]

\* def fn(a, b)
SigAB == << Param("a", "POSITIONAL_OR_KEYWORD", FALSE),
            Param("b", "POSITIONAL_OR_KEYWORD", FALSE) >>

\* def demo(x, *args, other=None)
SigDemo == << Param("x", "POSITIONAL_OR_KEYWORD", FALSE),
              Param("args", "VAR_POSITIONAL", FALSE),
              Param("other", "KEYWORD_ONLY", TRUE) >>

\* def fn(x, **kwargs)
SigKw == << Param("x", "POSITIONAL_OR_KEYWORD", FALSE),
            Param("kwargs", "VAR_KEYWORD", FALSE) >>

Signatures == {SigAB, SigDemo, SigKw}

\* keyword names a caller may pass: the named parameters, and for a
\* signature with **kwargs two more keys
KwKeys(s) ==
    {s[i].name : i \in {j \in 1..Len(s) : s[j].kind \in {"POSITIONAL_OR_KEYWORD", "KEYWORD_ONLY"}}}
      \cup (IF \E i \in 1..Len(s) : s[i].kind = "VAR_KEYWORD" THEN {"j", "k"} ELSE {})

ArgSeqs(n) == UNION {[1..m -> Values] : m \in 0..n}

KwMaps(s) ==
    UNION {[keys -> Values] : keys \in {ks \in SUBSET KwKeys(s) : Cardinality(ks) <= MaxKw}}

\* the argument lists (*args, **kwargs) of one call of the wrapped callable
\* or of a deferred call
Calls(s) ==
    UNION {{[args |-> a, kwargs |-> kw] : a \in ArgSeqs(MaxArgs - Cardinality(DOMAIN kw))} :
           kw \in KwMaps(s)}

(***************************************************************************)
(* inspect.Signature.bind / bind_partial as called by the wrapper and by   *)
(* the completion.  The result is [err, arguments]; err = "" on success.    *)
(***************************************************************************)
BindOk(arguments) == [err |-> "", arguments |-> arguments]

BindErr(msg) == [err |-> msg, arguments |-> EmptyDict]

\* second phase: the parameters from index j on take their values by keyword
BindKeywords(s, kwargs, partial, j, arguments) ==
    LET rest     == j..Len(s)
        named    == {i \in rest : s[i].kind \notin {"VAR_KEYWORD", "VAR_POSITIONAL"}}
        given    == {i \in named : s[i].name \in DOMAIN kwargs}
        required == {i \in named \ given : ~s[i].hasDefault}
        leftover == DOMAIN kwargs \ {s[i].name : i \in given}
        byName   == [n \in {s[i].name : i \in given} |-> kwargs[n]]
        kwparams == {i \in rest : s[i].kind = "VAR_KEYWORD"}
    IN  IF ~partial /\ required # {}
        THEN BindErr("missing a required argument")
        ELSE IF leftover = {}
        THEN BindOk(byName @@ arguments)
        ELSE IF kwparams = {}
        THEN BindErr("got an unexpected keyword argument")
        ELSE BindOk(((s[CHOOSE i \in kwparams : TRUE].name) :> Dict([n \in leftover |-> kwargs[n]]))
                      @@ byName @@ arguments)

RECURSIVE BindPositional(_, _, _, _, _, _)
\* first phase: positional argument i meets parameter i
BindPositional(s, args, kwargs, partial, i, arguments) ==
    IF i > Len(args)
    THEN IF i > Len(s)
         THEN BindKeywords(s, kwargs, partial, i, arguments)
         ELSE IF s[i].kind = "VAR_POSITIONAL"
         THEN BindKeywords(s, kwargs, partial, i + 1, arguments)
         ELSE IF s[i].name \in DOMAIN kwargs
         THEN BindKeywords(s, kwargs, partial, i, arguments)
         ELSE IF s[i].kind = "VAR_KEYWORD" \/ s[i].hasDefault
         THEN BindKeywords(s, kwargs, partial, i, arguments)
         ELSE IF partial
         THEN BindKeywords(s, kwargs, partial, i, arguments)
         ELSE BindErr("missing a required argument")
    ELSE IF i > Len(s)
         THEN BindErr("too many positional arguments")
         ELSE IF s[i].kind \in {"VAR_KEYWORD", "KEYWORD_ONLY"}
         THEN BindErr("too many positional arguments")
         ELSE IF s[i].kind = "VAR_POSITIONAL"
         THEN BindKeywords(s, kwargs, partial, i + 1,
                           (s[i].name :> Tuple(SubSeq(args, i, Len(args)))) @@ arguments)
         ELSE IF s[i].name \in DOMAIN kwargs
         THEN BindErr("multiple values for argument")
         ELSE BindPositional(s, args, kwargs, partial, i + 1,
                             (s[i].name :> args[i]) @@ arguments)

\* sig.bind(*args, **kwargs)
bind(s, args, kwargs) == BindPositional(s, args, kwargs, FALSE, 1, EmptyDict)

\* sig.bind_partial(*args, **kwargs)
bind_partial(s, args, kwargs) == BindPositional(s, args, kwargs, TRUE, 1, EmptyDict)

RECURSIVE BoundArgs(_, _, _)
\* BoundArguments.args: the positional part of the dispatch fn(*bound.args, ...)
BoundArgs(s, arguments, i) ==
    IF i > Len(s) THEN <<>>
    ELSE IF s[i].kind \in {"VAR_KEYWORD", "KEYWORD_ONLY"} THEN <<>>
    ELSE IF s[i].name \notin DOMAIN arguments THEN <<>>
    ELSE IF s[i].kind = "VAR_POSITIONAL"
         THEN arguments[s[i].name].v \o BoundArgs(s, arguments, i + 1)
         ELSE <<arguments[s[i].name]>> \o BoundArgs(s, arguments, i + 1)

\* BoundArguments.kwargs: the keyword part of the dispatch fn(..., **bound.kwargs)
BoundKwargs(s, arguments) ==
    LET starts  == {i \in 1..Len(s) : \/ s[i].kind \in {"VAR_KEYWORD", "KEYWORD_ONLY"}
                                      \/ s[i].name \notin DOMAIN arguments}
        started == {i \in 1..Len(s) : /\ \E k \in starts : k <= i
                                      /\ s[i].name \in DOMAIN arguments}
        plain   == {i \in started : s[i].kind # "VAR_KEYWORD"}
        var     == {i \in started : s[i].kind = "VAR_KEYWORD"}
        byName  == [n \in {s[i].name : i \in plain} |-> arguments[n]]
    IN  IF var = {} THEN byName
        ELSE arguments[s[CHOOSE i \in var : TRUE].name].v @@ byName

(***************************************************************************)
(* MyBound.resolve_placeholders(self, bound).  self.arguments is the dict   *)
(* the deferred call stores: the result is the content of that dict after  *)
(* the method, and err = "IndexError" when args.pop() met an empty list.     *)
(***************************************************************************)
RECURSIVE FillArgs(_, _)
\* [args.pop() if _is_placeholder(a) else a for a in items]; list.pop() takes
\* the last element of pool
FillArgs(items, pool) ==
    IF items = <<>> THEN [err |-> "", items |-> <<>>]
    ELSE IF is_placeholder(Head(items))
    THEN IF pool = <<>>
         THEN [err |-> "IndexError", items |-> <<>>]
         ELSE LET r == FillArgs(Tail(items), SubSeq(pool, 1, Len(pool) - 1))
              IN  [err |-> r.err, items |-> <<pool[Len(pool)]>> \o r.items]
    ELSE LET r == FillArgs(Tail(items), pool)
         IN  [err |-> r.err, items |-> <<Head(items)>> \o r.items]

\* self.arguments.update(bound.arguments)
DictUpdate(self, other) == other @@ self

resolve_placeholders(self, bound) ==
    LET updated == DictUpdate(self, bound)
        args    == IF "args" \in DOMAIN bound THEN bound["args"].v ELSE <<>>
        filled  == IF "args" \in DOMAIN updated
                   THEN FillArgs(updated["args"].v, args)
                   ELSE [err |-> "", items |-> <<>>]
        withArgs == IF "args" \in DOMAIN updated
                    THEN [updated EXCEPT !["args"] = Tuple(filled.items)]
                    ELSE updated
        kwargs  == IF "kwargs" \in DOMAIN bound THEN bound["kwargs"].v ELSE EmptyDict
        withKw  == IF "kwargs" \in DOMAIN withArgs
                   THEN [withArgs EXCEPT !["kwargs"] = Dict(DictUpdate(withArgs["kwargs"].v, kwargs))]
                   ELSE withArgs
    IN  IF filled.err # ""
        THEN [err |-> filled.err, arguments |-> updated]
        ELSE [err |-> "", arguments |-> withKw]

MyBound_shared(ref) == [arguments |-> 1]

\* A MyBound object: its arguments attribute refers to a dict.  The dict
\* of deferred call id is named id; 0 names a dict no deferred call holds.
MyBound(ref) == [arguments |-> ref]

\* MyBound.copy(): self.__class__(self.signature, self.arguments), a new
\* MyBound over the same arguments dict
copy(self) == MyBound(self.arguments)

(***************************************************************************)
(* The wrapped callable and its deferred calls.  deferred[id] is the       *)
(* arguments dict of deferred call id; dispatched is the set of deferred   *)
(* calls whose __call__ has called fn.                                     *)
(***************************************************************************)
NoCall == [args |-> <<>>, kwargs |-> EmptyDict]

Record(op, dc, args, kwargs, before, outcome, invoked, call, missing) ==
    [op |-> op, dc |-> dc, args |-> args, kwargs |-> kwargs, before |-> before,
     outcome |-> outcome, invoked |-> invoked, call |-> call, missing |-> missing]

\* fn(*args, **kwargs): fn returns, or raises an error of its own
FnOutcomes == {"returned", "FnError"}

\* The caller keeps one deferred call at a time, as step2 of the demo; a
\* new deferred call takes its place.
DeferredIds == {1}

\* a caller that keeps two deferred calls of the same wrapped callable
TwoDeferredIds == {1, 2}

\* The caller keeps its deferred calls in the places DOMAIN deferred;
\* deferred[id] is the empty dict while place id holds none (the arguments
\* of a deferred call are never empty: one of them is a Placeholder).
Held == {id \in DOMAIN deferred : deferred[id] # EmptyDict}

\* _DeferredCall.__init__(self, bound) stores MyBound.from_bound(bound): the
\* new object's arguments dict is bound.arguments
new_deferred(id, arguments) ==
    /\ deferred' = [deferred EXCEPT ![MyBound(id).arguments] = arguments]
    /\ dispatched' = dispatched \ {id}

\* parametrize.<locals>.wrapper(*args, **kwargs)
wrapper(args, kwargs) ==
    LET bound == bind(sig, args, kwargs)
    IN  IF bound.err # ""
        THEN /\ last' = Record("wrapper", 0, args, kwargs, EmptyDict, "BindError",
                               FALSE, NoCall, {})
             /\ UNCHANGED <<deferred, dispatched>>
        ELSE IF has_placeholders(bound.arguments)
        THEN \E id \in DOMAIN deferred :
                /\ new_deferred(id, bound.arguments)
                /\ last' = Record("wrapper", id, args, kwargs, EmptyDict, "deferred",
                                  FALSE, NoCall, {})
        ELSE \E result \in FnOutcomes :
                /\ last' = Record("wrapper", 0, args, kwargs, EmptyDict, result,
                                  TRUE, [args |-> args, kwargs |-> kwargs], {})
                /\ UNCHANGED <<deferred, dispatched>>

\* _DeferredCall.__call__(self, *args, **kwargs), self being deferred call id
complete(id, args, kwargs) ==
    LET extra    == bind_partial(sig, args, kwargs)
        stored   == deferred[id]
        completed_bound == copy(MyBound(id))
        \* the dict completed_bound.resolve_placeholders(extra) writes: the
        \* dict of a deferred call, or a dict no deferred call holds
        target   == completed_bound.arguments
        shared   == target \in DOMAIN deferred
        resolved == resolve_placeholders(IF shared THEN deferred[target] ELSE stored,
                                         extra.arguments)
        merged   == IF shared THEN [deferred EXCEPT ![target] = resolved.arguments]
                    ELSE deferred
        \* the dict of self._bound after completed_bound.resolve_placeholders(extra)
        selfArgs == merged[id]
        missing  == {n \in DOMAIN selfArgs : is_placeholder(selfArgs[n])}
        Fail(outcome, after, names) ==
            /\ last' = Record("complete", id, args, kwargs, stored, outcome,
                              FALSE, NoCall, names)
            /\ deferred' = after
            /\ UNCHANGED dispatched
    IN  IF extra.err # ""
        THEN Fail("BindError", deferred, {})
        ELSE IF has_placeholders(extra.arguments)
        THEN Fail("ConcreteRequired", deferred, {})
        ELSE IF resolved.err # ""
        THEN Fail(resolved.err, merged, {})
        ELSE IF Cardinality(DOMAIN resolved.arguments) > Cardinality(DOMAIN selfArgs)
        THEN Fail("TooMany", merged, {})
        ELSE IF has_placeholders(resolved.arguments)
        THEN Fail("Missing", merged, missing)
        ELSE \E result \in FnOutcomes :
                /\ last' = Record("complete", id, args, kwargs, stored, result, TRUE,
                                  [args |-> BoundArgs(sig, resolved.arguments, 1),
                                   kwargs |-> BoundKwargs(sig, resolved.arguments)], {})
                /\ deferred' = merged
                /\ dispatched' = dispatched \cup {id}

Idle == Record("idle", 0, <<>>, EmptyDict, EmptyDict, "", FALSE, NoCall, {})

\* a caller calls the wrapped callable
Wrap ==
    /\ last.op = "idle"
    /\ \E c \in Calls(sig) : wrapper(c.args, c.kwargs)
    /\ UNCHANGED <<sig, registries, current_registry, rlast, handles>>

\* a caller calls a deferred call it holds
Complete ==
    /\ last.op = "idle"
    /\ \E id \in Held : \E c \in Calls(sig) : complete(id, c.args, c.kwargs)
    /\ UNCHANGED <<sig, registries, current_registry, rlast, handles>>

\* the caller has taken the result (or the error) of its call and goes on
Return ==
    /\ last.op # "idle"
    /\ last' = Idle
    /\ UNCHANGED <<sig, deferred, dispatched, registries, current_registry, rlast, handles>>

\* The values of a call by a caller that also passes the deferred calls it
\* holds as arguments.  A value DeferredRef(id) is only ever asked for its
\* class, never followed.
NestedValues == Values \cup {DeferredRef(id) : id \in Held}

ArgSeqsOf(vals, n) == UNION {[1..m -> vals] : m \in 0..n}

KwMapsOf(s, vals) ==
    UNION {[keys -> vals] : keys \in {ks \in SUBSET KwKeys(s) : Cardinality(ks) <= MaxKw}}

CallsOf(s, vals) ==
    UNION {{[args |-> a, kwargs |-> kw] : a \in ArgSeqsOf(vals, MaxArgs - Cardinality(DOMAIN kw))} :
           kw \in KwMapsOf(s, vals)}

\* a caller calls the wrapped callable, a deferred call it holds possibly
\* among the arguments
WrapNested ==
    /\ last.op = "idle"
    /\ \E c \in CallsOf(sig, NestedValues) : wrapper(c.args, c.kwargs)
    /\ UNCHANGED <<sig, registries, current_registry, rlast, handles>>

\* a caller calls a deferred call it holds, a deferred call it holds
\* possibly among the arguments
CompleteNested ==
    /\ last.op = "idle"
    /\ \E id \in Held : \E c \in CallsOf(sig, NestedValues) : complete(id, c.args, c.kwargs)
    /\ UNCHANGED <<sig, registries, current_registry, rlast, handles>>

(***************************************************************************)
(* ParamStrategyRegistry.  registries[r] is the _strategies dict of        *)
(* instance r; current_registry is the class attribute _current_registry,  *)
(* 0 standing for None.                                                    *)
(***************************************************************************)
\* at most MaxRegistries instances are constructed
MaxRegistries == 2

RegNames == {"a", "b"}

\* a value that is no SearchStrategy
Raw(n) == [tag |-> "int", kind |-> "", v |-> n]

SearchStrategy(kind, n) == [tag |-> "SearchStrategy", kind |-> kind, v |-> n]

\* hypothesis.strategies.just(value)
just(value) == SearchStrategy("just", value.v)

\* the values that are no SearchStrategy: 7 (as in a registry of {"a": 7}) and
\* one other; the registry never looks into a value
RawValues == {Raw(7), Raw(8)}

\* the strategies a caller passes in given_kwargs
GivenStrategies == {SearchStrategy("integers", 0)}

Strategies == GivenStrategies \cup {just(x) : x \in RawValues}

RegValues == RawValues \cup GivenStrategies

NameMaps(vals) == UNION {[names -> vals] : names \in SUBSET RegNames}

register_unless_equal(strategies, name, strat) ==
    IF name \in DOMAIN strategies /\ strategies[name] # strat
    THEN [err |-> "KeyError", strategies |-> strategies]
    ELSE [err |-> "", strategies |-> (name :> strat) @@ strategies]

\* _register_param_value(self, name, strat) on the dict strategies
register_param_value(strategies, name, strat) ==
    IF name \in DOMAIN strategies
    THEN [err |-> "KeyError", strategies |-> strategies]
    ELSE [err |-> "", strategies |-> (name :> strat) @@ strategies]

RECURSIVE RegisterEach(_, _, _)
\* the loop of _register_param_values over the names still to register
RegisterEach(strategies, maybe_strategies, names) ==
    IF names = {} THEN [err |-> "", strategies |-> strategies]
    ELSE LET name  == CHOOSE n \in names : TRUE
             strat == IF maybe_strategies[name].tag # "SearchStrategy"
                      THEN just(maybe_strategies[name])
                      ELSE maybe_strategies[name]
             r     == register_param_value(strategies, name, strat)
         IN  IF r.err # "" THEN r
             ELSE RegisterEach(r.strategies, maybe_strategies, names \ {name})

\* _register_param_values(self, kwargs, given_kwargs)
register_param_values(strategies, kwargs, given_kwargs) ==
    LET maybe_strategies == kwargs @@ given_kwargs   \* {**given_kwargs, **kwargs}
    IN  RegisterEach(strategies, maybe_strategies, DOMAIN maybe_strategies)

\* an empty dict of names
NoNames == [n \in {} |-> Raw(0)]

RLast(op, reg, name, exc, before, outcome, value, prev) ==
    [op |-> op, reg |-> reg, name |-> name, exc |-> exc, before |-> before,
     outcome |-> outcome, value |-> value, prev |-> prev,
     kwargs |-> NoNames, given_kwargs |-> NoNames, wrapped |-> Raw(0)]

NoValue == Raw(0)

\* whether the call before the one the caller is in was an __exit__: "exit",
\* "exit_error" when it followed an error raised inside the scope, "" if not
Prev == rlast.prev

\* ParamStrategyRegistry(kwargs, given_kwargs), the new instance being r
init(r, kwargs, given_kwargs) ==
    LET done == register_param_values([n \in {} |-> NoValue], kwargs, given_kwargs)
        Called(outcome) ==
            [RLast("init", r, "", FALSE, current_registry, outcome, NoValue, Prev)
                EXCEPT !.kwargs = kwargs, !.given_kwargs = given_kwargs]
    IN  /\ r \notin DOMAIN registries
        /\ IF done.err # ""
           THEN /\ rlast' = Called(done.err)
                /\ UNCHANGED registries
           ELSE /\ rlast' = Called("ok")
                /\ registries' = (r :> done.strategies) @@ registries
        /\ UNCHANGED current_registry

enter_unguarded(r) ==
    /\ current_registry' = r
    /\ rlast' = RLast("enter", r, "", FALSE, current_registry, "ok", NoValue, Prev)
    /\ UNCHANGED registries

\* ParamStrategyRegistry.__enter__(self), self being instance r
enter(r) ==
    /\ IF current_registry = 0
       THEN /\ current_registry' = r
            /\ rlast' = RLast("enter", r, "", FALSE, current_registry, "ok", NoValue, Prev)
       ELSE /\ rlast' = RLast("enter", r, "", FALSE, current_registry, "AlreadyActive",
                              NoValue, Prev)
            /\ UNCHANGED current_registry
    /\ UNCHANGED registries

exit_unless_error(r, exc) ==
    /\ current_registry' = IF exc THEN current_registry ELSE 0
    /\ rlast' = RLast("exit", r, "", exc, current_registry, "ok", NoValue, Prev)
    /\ UNCHANGED registries

\* ParamStrategyRegistry.__exit__(self, *args), self being instance r; exc says
\* whether args carries an error raised inside the scope
exit(r, exc) ==
    /\ current_registry' = 0
    /\ rlast' = RLast("exit", r, "", exc, current_registry, "ok", NoValue, Prev)
    /\ UNCHANGED registries

\* the exception cls._current_registry._strategies[name] raises, "" if none
lookup_raises(name) ==
    IF current_registry = 0 THEN "AttributeError"
    ELSE IF name \notin DOMAIN registries[current_registry] THEN "KeyError"
    ELSE ""

handler_swapped(raised) ==
    IF raised = "KeyError" THEN "OutsideScope" ELSE "NotSetUp"

\* the except clauses of get: the RuntimeError raised for the exception caught
handler(raised) ==
    IF raised = "KeyError" THEN "NotSetUp" ELSE "OutsideScope"

lookup_first_instance(name) ==
    LET r == CHOOSE x \in DOMAIN registries : \A y \in DOMAIN registries : x <= y
    IN  IF name \in DOMAIN registries[r] THEN registries[r][name] ELSE NoValue

\* cls._current_registry._strategies[name] when it raises nothing
lookup(name) == registries[current_registry][name]

\* ParamStrategyRegistry.get(name)
get(name) ==
    /\ IF lookup_raises(name) # ""
       THEN rlast' = RLast("get", current_registry, name, FALSE, current_registry,
                           handler(lookup_raises(name)), NoValue, Prev)
       ELSE rlast' = RLast("get", current_registry, name, FALSE, current_registry,
                           "ok", lookup(name), Prev)
    /\ UNCHANGED <<registries, current_registry>>

\* instance r's _register_param_value(name, strat), called after construction
register(r, name, strat) ==
    LET done == register_param_value(registries[r], name, strat)
    IN  /\ rlast' = RLast("register", r, name, FALSE, current_registry,
                          IF done.err # "" THEN done.err ELSE "ok", strat, Prev)
        /\ registries' = [registries EXCEPT ![r] = done.strategies]
        /\ UNCHANGED current_registry

DeferredUnchanged == UNCHANGED <<sig, deferred, dispatched, last>>

RIdle(prev) == RLast("idle", 0, "", FALSE, 0, "", NoValue, prev)

Construct ==
    /\ rlast.op = "idle"
    /\ \E r \in 1..MaxRegistries : \E kwargs \in NameMaps(RegValues) :
          \E given_kwargs \in NameMaps(GivenStrategies) : init(r, kwargs, given_kwargs)
    /\ DeferredUnchanged
    /\ UNCHANGED handles

Enter ==
    /\ rlast.op = "idle"
    /\ \E r \in DOMAIN registries : enter(r)
    /\ DeferredUnchanged
    /\ UNCHANGED handles

Exit ==
    /\ rlast.op = "idle"
    /\ \E r \in DOMAIN registries : \E exc \in BOOLEAN : exit(r, exc)
    /\ DeferredUnchanged
    /\ UNCHANGED handles

Get ==
    /\ rlast.op = "idle"
    /\ \E name \in RegNames : get(name)
    /\ DeferredUnchanged
    /\ UNCHANGED handles

Register ==
    /\ rlast.op = "idle"
    /\ \E r \in DOMAIN registries : \E name \in RegNames : \E strat \in Strategies :
          register(r, name, strat)
    /\ DeferredUnchanged
    /\ UNCHANGED handles

\* the caller has taken the result (or the error) of its call and goes on,
\* remembering only whether the call was an __exit__
RReturn ==
    /\ rlast.op # "idle"
    /\ rlast' = RIdle(IF rlast.op # "exit" THEN ""
                       ELSE IF rlast.exc THEN "exit_error" ELSE "exit")
    /\ UNCHANGED <<registries, current_registry, handles>>
    /\ DeferredUnchanged

(***************************************************************************)
(* Named references.  handles[name] is the ParamStrategy the caller holds  *)
(* for name: the strategy it yielded when it was last resolved, NoValue    *)
(* while it has yielded none.                                              *)
(***************************************************************************)
\* the name the caller makes references to; it may be in the mapping of the
\* active instance or not
ParamNames == {"a"}

NoHandles == [n \in {} |-> NoValue]

definition_cached(name) ==
    IF name \in DOMAIN handles /\ handles[name] # NoValue
    THEN [outcome |-> "ok", value |-> handles[name]]
    ELSE IF lookup_raises(name) # ""
    THEN [outcome |-> handler(lookup_raises(name)), value |-> NoValue]
    ELSE [outcome |-> "ok", value |-> lookup(name)]

\* lambda: ParamStrategyRegistry.get(self._name), the definition that
\* ParamStrategy.__init__ hands to DeferredStrategy
definition(name) ==
    IF lookup_raises(name) # ""
    THEN [outcome |-> handler(lookup_raises(name)), value |-> NoValue]
    ELSE [outcome |-> "ok", value |-> lookup(name)]

\* param(name): the reference to name; ParamStrategy.__init__ keeps the name
\* and the definition and calls neither
param(name) ==
    /\ handles' = IF name \in DOMAIN handles THEN handles
                  ELSE (name :> NoValue) @@ handles
    /\ rlast' = RLast("param", current_registry, name, FALSE, current_registry,
                      "ok", NoValue, Prev)
    /\ UNCHANGED <<registries, current_registry>>

\* the resolution of the reference to name: it evaluates the definition
resolve(name) ==
    LET found == definition(name)
    IN  /\ rlast' = [RLast("resolve", current_registry, name, FALSE, current_registry,
                           found.outcome, found.value, Prev)
                        EXCEPT !.wrapped = handles[name]]
        /\ handles' = IF found.outcome = "ok"
                      THEN [handles EXCEPT ![name] = found.value]
                      ELSE handles
        /\ UNCHANGED <<registries, current_registry>>

ParamCreate ==
    /\ rlast.op = "idle"
    /\ \E name \in ParamNames : param(name)
    /\ DeferredUnchanged

Resolve ==
    /\ rlast.op = "idle"
    /\ \E name \in DOMAIN handles : resolve(name)
    /\ DeferredUnchanged

NoRegistries == [r \in {} |-> [n \in {} |-> NoValue]]

Init ==
    /\ sig \in Signatures
    /\ deferred = [id \in DeferredIds |-> EmptyDict]
    /\ dispatched = {}
    /\ last = Idle
    /\ registries = NoRegistries
    /\ current_registry = 0
    /\ rlast = RIdle("")
    /\ handles = NoHandles

RegistryInit ==
    /\ sig = SigAB
    /\ deferred = [id \in {} |-> EmptyDict]
    /\ dispatched = {}
    /\ last = Idle
    /\ registries = NoRegistries
    /\ current_registry = 0
    /\ rlast = RIdle("")
    /\ handles = NoHandles

\* the mappings of constructed instances: what __init__ leaves in _strategies
Constructed ==
    {register_param_values(NoHandles, kwargs, NoNames).strategies : kwargs \in NameMaps(RegValues)}

\* MaxRegistries instances have been constructed, none is entered
ParamInit ==
    /\ sig = SigAB
    /\ deferred = [id \in {} |-> EmptyDict]
    /\ dispatched = {}
    /\ last = Idle
    /\ registries \in [1..MaxRegistries -> Constructed]
    /\ current_registry = 0
    /\ rlast = RIdle("")
    /\ handles = NoHandles

Next == Wrap \/ Complete \/ Return

NestedNext == WrapNested \/ CompleteNested \/ Return

\* the wrapped callables whose callers pass deferred calls as arguments:
\* named slots, and a variadic-keyword slot beside them
NestedInit ==
    /\ sig \in {SigAB, SigKw}
    /\ deferred = [id \in DeferredIds |-> EmptyDict]
    /\ dispatched = {}
    /\ last = Idle
    /\ registries = NoRegistries
    /\ current_registry = 0
    /\ rlast = RIdle("")
    /\ handles = NoHandles

SpecNested == NestedInit /\ [][NestedNext]_vars

\* the caller keeps two deferred calls of one wrapped callable, fn(a, b)
TwoInit ==
    /\ sig = SigAB
    /\ deferred = [id \in TwoDeferredIds |-> EmptyDict]
    /\ dispatched = {}
    /\ last = Idle
    /\ registries = NoRegistries
    /\ current_registry = 0
    /\ rlast = RIdle("")
    /\ handles = NoHandles

SpecTwo == TwoInit /\ [][Next]_vars

Spec == Init /\ [][Next]_vars

RegistryNext == Construct \/ Enter \/ Exit \/ Get \/ Register \/ RReturn

SpecRegistry == RegistryInit /\ [][RegistryNext]_vars

ParamNext == Enter \/ Exit \/ ParamCreate \/ Resolve \/ RReturn

SpecParam == ParamInit /\ [][ParamNext]_vars

(***************************************************************************)
(* Properties of the wrapped callable and its deferred calls (Spec).       *)
(***************************************************************************)
\* some argument of the call (*args, **kwargs) is a Placeholder
CallHasPlaceholder(args, kwargs) ==
    \/ \E i \in 1..Len(args) : is_placeholder(args[i])
    \/ \E k \in DOMAIN kwargs : is_placeholder(kwargs[k])

\* the call binds to the signature of the wrapped callable
WrapperBinds == last.op = "wrapper" /\ last.outcome # "BindError"

\* the Bound Arguments that the arguments of a completion bind to
Supplement == bind_partial(sig, last.args, last.kwargs)

\* a completion whose arguments bind and hold no Placeholder in any slot
ConcreteCompletion ==
    /\ last.op = "complete"
    /\ Supplement.err = ""
    /\ ~CallHasPlaceholder(last.args, last.kwargs)

NamedSlots(arguments) == {n \in DOMAIN arguments : arguments[n].tag \notin {"tuple", "dict"}}

VarArgs(arguments) == IF "args" \in DOMAIN arguments THEN arguments["args"].v ELSE <<>>

VarKwargs(arguments) == IF "kwargs" \in DOMAIN arguments THEN arguments["kwargs"].v ELSE EmptyDict

PlaceholderCount(items) == Cardinality({i \in 1..Len(items) : is_placeholder(items[i])})

RECURSIVE FillInOrder(_, _)
\* the stored variadic sequence with its Placeholders replaced, left to
\* right, by the values of pool, as far as pool reaches
FillInOrder(items, pool) ==
    IF items = <<>> THEN <<>>
    ELSE IF is_placeholder(Head(items)) /\ pool # <<>>
    THEN <<Head(pool)>> \o FillInOrder(Tail(items), Tail(pool))
    ELSE <<Head(items)>> \o FillInOrder(Tail(items), pool)

\* C1: a wrapped call that binds and holds a Placeholder in any slot (a
\* named slot, an entry of *args, a value of **kwargs) returns a Deferred
\* Call and does not invoke f.
C1_PlaceholderDefers ==
    (WrapperBinds /\ CallHasPlaceholder(last.args, last.kwargs))
        => (last.outcome = "deferred" /\ ~last.invoked)

\* C2: a wrapped call that binds and holds no Placeholder invokes f once
\* with the very arguments of the call, its outcome is f's result or f's
\* own error, and no Deferred Call is produced.
C2_PassThrough ==
    (WrapperBinds /\ ~CallHasPlaceholder(last.args, last.kwargs))
        => /\ last.invoked
           /\ last.call = [args |-> last.args, kwargs |-> last.kwargs]
           /\ last.outcome \in FnOutcomes
           /\ last.dc = 0

C2_Witness ==
    /\ WrapperBinds
    /\ ~CallHasPlaceholder(last.args, last.kwargs)
    /\ Len(last.args) >= 2
    /\ DOMAIN last.kwargs # {}
    /\ last.outcome = "returned"

\* C3: a completion that supplies a value for a named slot whose stored
\* value is already concrete raises "too many arguments" and does not
\* invoke f, whether or not the value equals the stored one.
C3_ConcreteSlotTooMany ==
    (/\ ConcreteCompletion
     /\ \E n \in NamedSlots(Supplement.arguments) \cap NamedSlots(last.before) :
           ~is_placeholder(last.before[n]))
        => (last.outcome = "TooMany" /\ ~last.invoked)

\* C4: a completion whose variadic values are as many as the Placeholders
\* of the stored variadic sequence, and which resolves every named slot,
\* dispatches f with the stored sequence in which the Placeholders are
\* replaced left to right and the concrete entries are kept in place.
C4_VariadicFilledInOrder ==
    (/\ ConcreteCompletion
     /\ PlaceholderCount(VarArgs(last.before)) >= 1
     /\ PlaceholderCount(VarArgs(last.before)) = Len(VarArgs(Supplement.arguments))
     /\ NamedSlots(Supplement.arguments) =
           {n \in NamedSlots(last.before) : is_placeholder(last.before[n])})
        => /\ last.invoked
           /\ LET merged == [n \in DOMAIN last.before |->
                               IF n = "args"
                               THEN Tuple(FillInOrder(VarArgs(last.before),
                                                      VarArgs(Supplement.arguments)))
                               ELSE IF n \in DOMAIN Supplement.arguments
                               THEN Supplement.arguments[n]
                               ELSE last.before[n]]
              IN  last.call = [args |-> BoundArgs(sig, merged, 1),
                               kwargs |-> BoundKwargs(sig, merged)]

\* C5: a completion that fails (Placeholders in the supplement, too many
\* arguments, missing arguments) leaves the stored Bound Arguments of the
\* Deferred Call as they were before the attempt.
C5_FailedAttemptKeepsBound ==
    (last.op = "complete" /\ last.outcome \in {"ConcreteRequired", "TooMany", "Missing"})
        => deferred[last.dc] = last.before

\* the completion leaves a Placeholder of the stored Bound Arguments
\* without a value: a named slot, an entry of *args or a value of **kwargs
LeavesUnresolved ==
    \/ \E n \in NamedSlots(last.before) :
          is_placeholder(last.before[n]) /\ n \notin DOMAIN Supplement.arguments
    \/ PlaceholderCount(VarArgs(last.before)) > Len(VarArgs(Supplement.arguments))
    \/ \E k \in DOMAIN VarKwargs(last.before) :
          /\ is_placeholder(VarKwargs(last.before)[k])
          /\ k \notin DOMAIN VarKwargs(Supplement.arguments)

\* C6: a completion that leaves a slot unresolved raises "missing
\* argument(s)" without invoking f, and a completion of the same Deferred
\* Call that supplies a concrete value for exactly its Placeholders
\* dispatches f.
C6_MissingThenRetry ==
    /\ (ConcreteCompletion /\ LeavesUnresolved)
          => (last.outcome = "Missing" /\ ~last.invoked)
    /\ (/\ ConcreteCompletion
        /\ ~LeavesUnresolved
        /\ \A n \in NamedSlots(Supplement.arguments) :
              n \in DOMAIN last.before /\ is_placeholder(last.before[n])
        /\ PlaceholderCount(VarArgs(last.before)) = Len(VarArgs(Supplement.arguments))
        /\ DOMAIN VarKwargs(Supplement.arguments) \subseteq
              {k \in DOMAIN VarKwargs(last.before) : is_placeholder(VarKwargs(last.before)[k])})
          => last.invoked

\* C14: a completion never dispatches f while a slot of the merged Bound
\* Arguments holds a Placeholder, an entry of *args and a value of **kwargs
\* included: f is never invoked with a Placeholder among its arguments.
C14_NoPlaceholderDispatched ==
    (ConcreteCompletion /\ last.invoked)
        => ~CallHasPlaceholder(last.call.args, last.call.kwargs)

\* C15: a completion whose arguments bind and hold a Placeholder in any
\* slot fails with "requires concrete values", before any merge: f is not
\* invoked and the stored Bound Arguments are as before.
C15_SupplementPlaceholderRejected ==
    (/\ last.op = "complete"
     /\ Supplement.err = ""
     /\ CallHasPlaceholder(last.args, last.kwargs))
        => /\ last.outcome = "ConcreteRequired"
           /\ ~last.invoked
           /\ deferred[last.dc] = last.before

\* C16: a completion that supplies more variadic-positional values than
\* the stored variadic sequence has Placeholders raises "too many
\* arguments" and does not invoke f.
C16_VariadicOversupply ==
    (/\ ConcreteCompletion
     /\ Len(VarArgs(Supplement.arguments)) > PlaceholderCount(VarArgs(last.before)))
        => (last.outcome = "TooMany" /\ ~last.invoked)

\* C17: a completion that supplies fewer variadic-positional values than
\* the stored variadic sequence has Placeholders fails with "missing
\* argument(s)", fills nothing and does not invoke f.
C17_VariadicUndersupply ==
    (/\ ConcreteCompletion
     /\ Len(VarArgs(Supplement.arguments)) < PlaceholderCount(VarArgs(last.before)))
        => /\ last.outcome = "Missing"
           /\ ~last.invoked
           /\ deferred[last.dc] = last.before

\* C18: a completion that supplies variadic-keyword entries fails when one
\* of their keys is in the stored variadic-keyword mapping; when it
\* dispatches, f receives every entry of the stored mapping and every
\* entry of the supplement.
C18_VariadicKeywordsAdded ==
    LET stored == VarKwargs(last.before)
        added  == VarKwargs(Supplement.arguments)
    IN  (ConcreteCompletion /\ DOMAIN added # {})
           => /\ DOMAIN stored \cap DOMAIN added # {} => ~last.invoked
              /\ last.invoked =>
                    /\ \A k \in DOMAIN stored :
                          k \in DOMAIN last.call.kwargs /\ last.call.kwargs[k] = stored[k]
                    /\ \A k \in DOMAIN added :
                          k \in DOMAIN last.call.kwargs /\ last.call.kwargs[k] = added[k]

\* the value of a slot holds a Placeholder: it is one, or it is the variadic
\* sequence or mapping and one of its entries is one
HoldsPlaceholder(value) ==
    IF value.tag = "tuple" THEN PlaceholderCount(value.v) > 0
    ELSE IF value.tag = "dict" THEN \E k \in DOMAIN value.v : is_placeholder(value.v[k])
    ELSE is_placeholder(value)

\* C19: the "missing argument(s)" error of a completion with concrete
\* arguments names exactly the slots that hold a Placeholder after the
\* merge.
C19_MissingNamesUnresolved ==
    (ConcreteCompletion /\ last.outcome = "Missing")
        => last.missing = {n \in DOMAIN deferred[last.dc] :
                             HoldsPlaceholder(deferred[last.dc][n])}

\* C20: once a completion of a Deferred Call has dispatched f, no later
\* completion attempt on that Deferred Call invokes f.
C20_ResolvedIsTerminal ==
    [][(last'.op = "complete" /\ last'.dc \in dispatched) => ~last'.invoked]_vars

\* the named slots of arguments whose value is a Deferred Call
DeferredCallSlots(arguments) ==
    {n \in NamedSlots(arguments) : arguments[n].tag = "_DeferredCall"}

\* C22: a wrapped call that binds with a Deferred Call in a named slot
\* returns a Deferred Call and does not invoke f; a completion whose
\* arguments bind with a Deferred Call in a named slot fails with
\* "requires concrete values" and does not invoke f.
C22_DeferredCallIsPlaceholder ==
    /\ (WrapperBinds /\ DeferredCallSlots(bind(sig, last.args, last.kwargs).arguments) # {})
          => (last.outcome = "deferred" /\ ~last.invoked)
    /\ (/\ last.op = "complete"
        /\ Supplement.err = ""
        /\ DeferredCallSlots(Supplement.arguments) # {})
          => (last.outcome = "ConcreteRequired" /\ ~last.invoked)

C22_Witness ==
    /\ last.op = "complete"
    /\ Supplement.err = ""
    /\ DeferredCallSlots(Supplement.arguments) # {}
    /\ ~\E i \in 1..Len(last.args) : last.args[i] = Placeholder
    /\ ~\E k \in DOMAIN last.kwargs : last.kwargs[k] = Placeholder
    /\ DeferredCallSlots(last.before) # {}
    /\ last.outcome = "ConcreteRequired"

\* C23: a wrapped call that defers creates a Deferred Call whose stored
\* Bound Arguments are those of that call, and leaves the other Deferred
\* Calls as they are; a completion attempt, successful or failed, leaves
\* the stored Bound Arguments of every other Deferred Call unchanged.
C23_DeferredCallsIndependent ==
    [][/\ (last'.op = "wrapper" /\ last'.outcome = "deferred")
             => /\ deferred'[last'.dc] = bind(sig, last'.args, last'.kwargs).arguments
                /\ \A other \in DOMAIN deferred \ {last'.dc} :
                      deferred'[other] = deferred[other]
       /\ last'.op = "complete"
             => \A other \in DOMAIN deferred \ {last'.dc} :
                   deferred'[other] = deferred[other]]_vars

C23_Witness ==
    /\ last.op = "complete"
    /\ last.outcome = "Missing"
    /\ deferred[last.dc] # last.before
    /\ \E other \in Held \ {last.dc} :
          \E n \in DOMAIN deferred[other] \cap DOMAIN Supplement.arguments :
             is_placeholder(deferred[other][n])

(***************************************************************************)
(* Properties of the registry (SpecRegistry).                              *)
(***************************************************************************)
\* instance r is the active one
Active(r) == current_registry = r

\* C7: at most one instance is active, and an Enter while an instance is
\* active (another one or the same one) raises "already active" and leaves
\* the active instance installed.
C7_SingleActive ==
    /\ Cardinality({r \in DOMAIN registries : Active(r)}) <= 1
    /\ current_registry # 0 => current_registry \in DOMAIN registries
    /\ (rlast.op = "enter" /\ rlast.before # 0)
          => (rlast.outcome = "AlreadyActive" /\ current_registry = rlast.before)

C7_Witness ==
    /\ rlast.op = "enter"
    /\ rlast.before # 0
    /\ rlast.before # rlast.reg
    /\ rlast.outcome = "AlreadyActive"

\* C8: after an Exit, whether the scope ended normally or by an error, no
\* instance is active, and the Enter that follows it, of the same or of
\* another instance, succeeds and installs that instance.
C8_ExitThenEnter ==
    /\ rlast.op = "exit" => current_registry = 0
    /\ (rlast.op = "idle" /\ rlast.prev \in {"exit", "exit_error"}) => current_registry = 0
    /\ (rlast.op = "enter" /\ rlast.prev \in {"exit", "exit_error"})
          => (rlast.outcome = "ok" /\ current_registry = rlast.reg)

C8_Witness ==
    /\ rlast.op = "enter"
    /\ rlast.prev = "exit_error"
    /\ rlast.outcome = "ok"
    /\ current_registry = rlast.reg

\* C9: Lookup fails with "outside of an active scope" exactly when no
\* instance is active and with "has not been set up" exactly when an
\* instance is active and the name is not in its mapping.
C9_LookupErrors ==
    rlast.op = "get" =>
        /\ rlast.outcome = "OutsideScope" <=> current_registry = 0
        /\ rlast.outcome = "NotSetUp" <=>
              (current_registry # 0 /\ rlast.name \notin DOMAIN registries[current_registry])

C9_Witness ==
    /\ rlast.op = "get"
    /\ rlast.outcome = "NotSetUp"
    /\ current_registry # 0
    /\ DOMAIN registries[current_registry] # {}

\* C10: a value given at construction is stored as the strategy that
\* yields it; while an instance is active Lookup of a name of its mapping
\* yields what that instance stores under the name; right after an Exit
\* the Lookup fails with "outside of an active scope".
C10_LookupActive ==
    /\ (rlast.op = "get" /\ current_registry # 0
           /\ rlast.name \in DOMAIN registries[current_registry])
          => (rlast.outcome = "ok" /\ rlast.value = registries[current_registry][rlast.name])
    /\ (rlast.op = "get" /\ rlast.prev \in {"exit", "exit_error"})
          => rlast.outcome = "OutsideScope"

C10_Witness ==
    /\ rlast.op = "get"
    /\ rlast.outcome = "ok"
    /\ rlast.value = just(Raw(7))
    /\ \E r \in DOMAIN registries :
          /\ ~Active(r)
          /\ rlast.name \in DOMAIN registries[r]
          /\ registries[r][rlast.name] # rlast.value

\* C11: registering a name that is already in the mapping of the instance
\* raises "already registered", whether or not the new value equals the
\* stored one, and leaves the mapping of the instance as it was.
C11_DuplicateRegister ==
    [][(/\ rlast'.op = "register"
        /\ rlast'.name \in DOMAIN registries[rlast'.reg])
          => (/\ rlast'.outcome = "KeyError"
              /\ registries'[rlast'.reg] = registries[rlast'.reg])]_vars

C11_Witness ==
    /\ rlast.op = "register"
    /\ rlast.outcome = "KeyError"
    /\ registries[rlast.reg][rlast.name] = rlast.value

\* C12: constructing an instance from two mappings that share a name
\* fails with "already registered"; no instance comes of it.
C12_SharedNameFails ==
    (rlast.op = "init" /\ DOMAIN rlast.kwargs \cap DOMAIN rlast.given_kwargs # {})
        => (rlast.outcome = "KeyError" /\ rlast.reg \notin DOMAIN registries)

\* C21: an Exit of an instance that is not the active one leaves the
\* active instance installed.
C21_ForeignExitKeepsActive ==
    (rlast.op = "exit" /\ rlast.before # 0 /\ rlast.reg # rlast.before)
        => current_registry = rlast.before

====
